---- MODULE Spec2Model ----
(***************************************************************************)
(* Model of the Windows Hypervisor Platform adapter's Platform class,      *)
(* src/modules/whpx/src/whpx_platform.cpp: the static dispatch table, the  *)
(* Instance() accessor, the capability probe run by the WhpxPlatform       *)
(* constructor, VM creation and the destructor.                            *)
(*                                                                         *)
(* The constructor is modelled one capability query per step, because each *)
(* query is a call into the native hypervisor whose result (the HRESULT    *)
(* and the bytes it leaves in the WHV_CAPABILITY buffer) is an input of    *)
(* the program.  WHV_CAPABILITY is a union: every query writes the same    *)
(* bytes and every field read is a view of those bytes.  The buffer is the *)
(* variable cap, a CapBits wide bit vector.                                *)
(***************************************************************************)
EXTENDS Integers, Sequences, FiniteSets, TLC

\* Width of the modelled WHV_CAPABILITY buffer, in bits.
CapBits == 6
\* Number of CreateVM calls made on the platform.
MaxCreateCalls == 2
\* Number of Instance() calls made by the process.
MaxInstanceCalls == 2

CapValues == 0 .. (2^CapBits - 1)

HRESULTS == {"S_OK", "E_FAIL"}

\* enum PlatformInitStatus of the Platform base class.
PlatformInitStatus == {"Uninitialized", "OK", "Unavailable", "Failed"}

\* Capability codes the constructor queries.
HypervisorPresentCode == "WHvCapabilityCodeHypervisorPresent"
FeaturesCode == "WHvCapabilityCodeFeatures"
ExtendedVmExitsCode == "WHvCapabilityCodeExtendedVmExits"
ExceptionExitBitmapCode == "WHvCapabilityCodeExceptionExitBitmap"

VARIABLES
    s_dispatch,     \* "null" | "allocated" | "deleted": the static WhpxDispatch pointer
    loadResult,     \* s_dispatch->Load(): "not_called" | "succeeded" | "failed"
    m_initStatus,   \* Platform::m_initStatus
    m_features,     \* Platform::m_features
    cap,            \* the bytes of the constructor's local WHV_CAPABILITY cap
    calls,          \* the WHvGetCapability calls issued so far: <<[code, hr]>>
    hvPresent,      \* what line 72 read from cap.HypervisorPresent: "unread" | "present" | "absent"
    pc,             \* position of the platform's lifecycle
    instanceCalls,  \* Instance() calls made so far
    m_vms,          \* Platform::m_vms, the VMs the platform tracks (sequence of ids)
    createCalls,    \* CreateVM calls made so far
    lastCreate,     \* what the last CreateVM call did
    events,         \* teardown events, in the order they happen
    g_whpxVersion   \* the global version of the platform: <<major, minor, build, revision>>

vars == <<s_dispatch, loadResult, m_initStatus, m_features, cap, calls, hvPresent, pc,
          instanceCalls, m_vms, createCalls, lastCreate, events, g_whpxVersion>>

----------------------------------------------------------------------------
(* Views of the WHV_CAPABILITY union.                                      *)

Bit(raw, i) == (raw \div (2^i)) % 2 = 1

\* BOOL HypervisorPresent, tested as !cap.HypervisorPresent.
HypervisorPresent(raw) == raw # 0

\* WHV_CAPABILITY_FEATURES bit fields read by the constructor.
PartialUnmap(raw) == Bit(raw, 0)
DirtyPageTracking(raw) == Bit(raw, 3)

\* WHV_EXTENDED_VM_EXITS bit fields.
X64CpuidExit(raw) == Bit(raw, 0)
X64MsrExit(raw) == Bit(raw, 1)
ExceptionExit(raw) == Bit(raw, 2)
X64RdtscExit(raw) == Bit(raw, 3)
X64ApicSmiExit(raw) == Bit(raw, 4)
HypercallExit(raw) == Bit(raw, 5)

\* UINT64 ExceptionExitBitmap, cast to ExceptionCode (0 is ExceptionCode::None).
ExceptionExitBitmap(raw) == raw

----------------------------------------------------------------------------
(* The native hypervisor.                                                  *)

\* What a WHvGetCapability call may leave in the buffer.  A successful
\* presence query writes a BOOL; the other successful queries write any bit
\* pattern.  A failed call promises nothing about the buffer: it may keep
\* what it held (uninitialised stack bytes before the first query, the
\* previous query's answer afterwards) or hold anything else.
CapabilityResponses(code, h) ==
    IF h = "S_OK" /\ code = HypervisorPresentCode THEN {0, 1} ELSE CapValues

\* Versions of the platform the process may run on, around the threshold of
\* line 86: the threshold itself, a later revision, an earlier build, a
\* later minor with an earlier build, an earlier major with a later build.
Versions ==
    { <<10, 0, 17763, 0>>, <<10, 0, 17763, 1>>, <<10, 0, 17134, 7>>,
      <<10, 1, 0, 0>>, <<9, 9, 99999, 9>> }

\* The versions the whole lifecycle (VM creation, destruction) is explored
\* on: one below and one at the threshold.
LifecycleVersions == { <<10, 0, 17134, 7>>, <<10, 0, 17763, 0>> }

\* VersionInfo::operator>=: major, then minor, then build, then revision.
VersionGE(a, b) ==
    \/ a[1] > b[1]
    \/ a[1] = b[1] /\ a[2] > b[2]
    \/ a[1] = b[1] /\ a[2] = b[2] /\ a[3] > b[3]
    \/ a[1] = b[1] /\ a[2] = b[2] /\ a[3] = b[3] /\ a[4] >= b[4]

\* VersionInfo(10, 0, 17763, 0) of line 86.
XCR0Version == <<10, 0, 17763, 0>>

\* Default-constructed PlatformFeatures: nothing probed yet.
DefaultFeatures ==
    [ populated |-> FALSE,
      dirtyPageTracking |-> FALSE,
      partialUnmapping |-> FALSE,
      extendedControlRegisters |-> {},
      extendedVMExits |-> {},
      exceptionExits |-> 0 ]

NoCreate == [called |-> FALSE, allocated |-> FALSE, usedDispatch |-> FALSE,
             initialized |-> FALSE, returned |-> FALSE, statusAtCall |-> "Uninitialized"]

\* The process before the first Instance() call, on any of Versions.
ProbeInit ==
    /\ s_dispatch \in {"null", "allocated"}
    /\ loadResult = "not_called"
    /\ m_initStatus = "Uninitialized"
    /\ m_features = DefaultFeatures
    /\ cap \in CapValues
    /\ calls = <<>>
    /\ hvPresent = "unread"
    /\ pc = "static_init"
    /\ instanceCalls = 0
    /\ m_vms = <<>>
    /\ createCalls = 0
    /\ lastCreate = NoCreate
    /\ events = <<>>
    /\ g_whpxVersion \in Versions

\* The same, on the versions the whole lifecycle is explored on.
Init == ProbeInit /\ g_whpxVersion \in LifecycleVersions

----------------------------------------------------------------------------
(* WhpxPlatform::Instance(): a function-local static, constructed by the   *)
(* first call and returned by every call.                                  *)

\* Variant: the instance is not static, every call constructs it.
InstancePc_Reconstructs(p) == "ctor"

\* Lines 42-43: the static local is constructed by the first call only.
InstancePc(p) == IF p = "static_init" THEN "ctor" ELSE p

Instance ==
    /\ pc \in {"static_init", "ready"}
    /\ instanceCalls < MaxInstanceCalls
    /\ instanceCalls' = instanceCalls + 1
    /\ pc' = InstancePc(pc)
    /\ UNCHANGED <<g_whpxVersion, s_dispatch, loadResult, m_initStatus, m_features, cap, calls,
                   hvPresent, m_vms, createCalls, lastCreate, events>>

----------------------------------------------------------------------------
(* WhpxPlatform::WhpxPlatform()                                            *)

\* Variant: a failed Load() is ignored and probing goes on.
CtorPrologue_LoadIgnored(dispatch, loadOk, st) ==
    IF dispatch = "null" THEN [status |-> "Failed", next |-> "ready"]
    ELSE [status |-> st, next |-> "q_present"]

\* Variant: a missing dispatch object is reported like a failed Load().
CtorPrologue_NullUnavailable(dispatch, loadOk, st) ==
    IF dispatch = "null" \/ ~loadOk THEN [status |-> "Unavailable", next |-> "ready"]
    ELSE [status |-> st, next |-> "q_present"]

\* Lines 49-57: the two early returns before any capability query.
CtorPrologue(dispatch, loadOk, st) ==
    IF dispatch = "null" THEN [status |-> "Failed", next |-> "ready"]
    ELSE IF ~loadOk THEN [status |-> "Unavailable", next |-> "ready"]
    ELSE [status |-> st, next |-> "q_present"]

\* if (S_OK != hr) m_initStatus = PlatformInitStatus::Failed;
StatusAfterQuery(st, h) == IF h # "S_OK" THEN "Failed" ELSE st

\* Variant: the return of line 74 is missing.
PresenceCheck_NoReturn(raw, st) ==
    [status |-> IF ~HypervisorPresent(raw) THEN "Unavailable" ELSE st,
     next |-> "q_features"]

\* Lines 72-75: if (!cap.HypervisorPresent) { Unavailable; return; }
PresenceCheck(raw, st) ==
    IF ~HypervisorPresent(raw) THEN [status |-> "Unavailable", next |-> "ready"]
    ELSE [status |-> st, next |-> "q_features"]

\* Variant: XCR0 is published whatever the version.
ControlRegisters_NoVersionGate(v) == {"CR8", "MXCSRMask", "XCR0"}

\* Lines 85-88: CR8 | MXCSRMask, and XCR0 from version 10.0.17763.0 on.
ControlRegisters(v) ==
    {"CR8", "MXCSRMask"} \cup (IF VersionGE(v, XCR0Version) THEN {"XCR0"} ELSE {})

\* Lines 83-103: the feature set published from the features query, and OK.
PopulateFeatures(f, raw) ==
    [f EXCEPT !.populated = TRUE,
              !.extendedControlRegisters = ControlRegisters(g_whpxVersion),
              !.dirtyPageTracking = DirtyPageTracking(raw),
              !.partialUnmapping = PartialUnmap(raw)]

\* Variant: line 103 is missing.
StatusAfterFeatures_Kept(st) == st

\* Line 103: m_initStatus = PlatformInitStatus::OK, whatever it was.
StatusAfterFeatures(st) == "OK"

\* Lines 111-118: the exits published before the exception bitmap query.
ExitsHead(raw) ==
    (IF X64CpuidExit(raw) THEN {"CPUID"} ELSE {})
    \cup (IF X64MsrExit(raw) THEN {"MSRAccess"} ELSE {})
    \cup (IF ExceptionExit(raw) THEN {"Exception"} ELSE {})

\* Variant: the exception bitmap is queried outside the if.
QueriesExceptionBitmap_Always(raw) == TRUE

\* Variant: the block of lines 117-124 hangs on the wrong bit field.
QueriesExceptionBitmap_WrongField(raw) == X64MsrExit(raw)

\* Line 117: the exception bitmap is queried inside if (cap.ExtendedVmExits.ExceptionExit).
QueriesExceptionBitmap(raw) == ExceptionExit(raw)

\* Lines 125-133: the exits published from cap after that block.
ExitsTail(raw) ==
    (IF X64RdtscExit(raw) THEN {"TSCAccess"} ELSE {})
    \cup (IF X64ApicSmiExit(raw) THEN {"APICSMI"} ELSE {})
    \cup (IF HypercallExit(raw) THEN {"Hypercall"} ELSE {})

Call(code, h) == [code |-> code, hr |-> h]

CtorBegin ==
    /\ pc = "ctor"
    /\ \E loadOk \in BOOLEAN :
         LET r == CtorPrologue(s_dispatch, loadOk, m_initStatus) IN
         /\ m_initStatus' = r.status
         /\ pc' = r.next
         /\ loadResult' = IF s_dispatch = "null" THEN "not_called"
                          ELSE IF loadOk THEN "succeeded" ELSE "failed"
    /\ UNCHANGED <<g_whpxVersion, s_dispatch, m_features, cap, calls, hvPresent, instanceCalls,
                   m_vms, createCalls, lastCreate, events>>

\* Lines 68-75.
QueryHypervisorPresent ==
    /\ pc = "q_present"
    /\ \E h \in HRESULTS : \E out \in CapabilityResponses(HypervisorPresentCode, h) :
         LET r == PresenceCheck(out, StatusAfterQuery(m_initStatus, h)) IN
         /\ cap' = out
         /\ calls' = Append(calls, Call(HypervisorPresentCode, h))
         /\ hvPresent' = IF HypervisorPresent(out) THEN "present" ELSE "absent"
         /\ m_initStatus' = r.status
         /\ pc' = r.next
    /\ UNCHANGED <<g_whpxVersion, s_dispatch, loadResult, m_features, instanceCalls, m_vms,
                   createCalls, lastCreate, events>>

\* Lines 78-103.
QueryFeatures ==
    /\ pc = "q_features"
    /\ \E h \in HRESULTS : \E out \in CapabilityResponses(FeaturesCode, h) :
         /\ cap' = out
         /\ calls' = Append(calls, Call(FeaturesCode, h))
         /\ m_features' = PopulateFeatures(m_features, out)
         /\ m_initStatus' = StatusAfterFeatures(StatusAfterQuery(m_initStatus, h))
    /\ pc' = "q_extexits"
    /\ UNCHANGED <<g_whpxVersion, s_dispatch, loadResult, hvPresent, instanceCalls, m_vms,
                   createCalls, lastCreate, events>>

\* Lines 106-118, and lines 125-133 when the exception bitmap is not queried.
QueryExtendedVmExits ==
    /\ pc = "q_extexits"
    /\ \E h \in HRESULTS : \E out \in CapabilityResponses(ExtendedVmExitsCode, h) :
         /\ cap' = out
         /\ calls' = Append(calls, Call(ExtendedVmExitsCode, h))
         /\ m_initStatus' = StatusAfterQuery(m_initStatus, h)
         /\ IF QueriesExceptionBitmap(out)
            THEN /\ m_features' = [m_features EXCEPT !.extendedVMExits = @ \cup ExitsHead(out)]
                 /\ pc' = "q_excbitmap"
            ELSE /\ m_features' = [m_features EXCEPT
                                     !.extendedVMExits = @ \cup ExitsHead(out) \cup ExitsTail(out)]
                 /\ pc' = "ready"
    /\ UNCHANGED <<g_whpxVersion, s_dispatch, loadResult, hvPresent, instanceCalls, m_vms,
                   createCalls, lastCreate, events>>

\* Lines 119-124, then lines 125-133 reading the same buffer.
QueryExceptionExitBitmap ==
    /\ pc = "q_excbitmap"
    /\ \E h \in HRESULTS : \E out \in CapabilityResponses(ExceptionExitBitmapCode, h) :
         /\ cap' = out
         /\ calls' = Append(calls, Call(ExceptionExitBitmapCode, h))
         /\ m_initStatus' = StatusAfterQuery(m_initStatus, h)
         /\ m_features' = [m_features EXCEPT
                             !.exceptionExits = ExceptionExitBitmap(out),
                             !.extendedVMExits = @ \cup ExitsTail(out)]
    /\ pc' = "ready"
    /\ UNCHANGED <<g_whpxVersion, s_dispatch, loadResult, hvPresent, instanceCalls, m_vms,
                   createCalls, lastCreate, events>>

----------------------------------------------------------------------------
(* VM creation.  Platform::CreateVM is the public entry point of the base  *)
(* class; it calls the backend's CreateVMImpl and tracks the VM returned.  *)

\* Variant: no check of the init status.
CreateVMAllowed_Always(st) == TRUE

\* Platform::CreateVM refuses to create a VM unless the platform is usable.
CreateVMAllowed(st) == st = "OK"

\* Variant: the VM is returned whatever Initialize() said.
CreateVMImpl_ReturnsAlways(initOk) ==
    [allocated |-> TRUE, usedDispatch |-> TRUE, initialized |-> initOk,
     returned |-> TRUE]

\* Lines 143-149: allocate the VM over *s_dispatch, Initialize it, return it
\* or nullptr.
CreateVMImpl(initOk) ==
    [allocated |-> TRUE, usedDispatch |-> TRUE, initialized |-> initOk,
     returned |-> IF ~initOk THEN FALSE ELSE TRUE]

CreateVM ==
    /\ pc = "ready"
    /\ createCalls < MaxCreateCalls
    /\ createCalls' = createCalls + 1
    /\ \E initOk \in BOOLEAN :
         LET r == IF CreateVMAllowed(m_initStatus)
                  THEN CreateVMImpl(initOk)
                  ELSE [allocated |-> FALSE, usedDispatch |-> FALSE,
                        initialized |-> FALSE, returned |-> FALSE]
         IN /\ lastCreate' = [called |-> TRUE, allocated |-> r.allocated,
                              usedDispatch |-> r.usedDispatch,
                              initialized |-> r.initialized, returned |-> r.returned,
                              statusAtCall |-> m_initStatus]
            /\ m_vms' = IF r.returned THEN Append(m_vms, createCalls + 1) ELSE m_vms
    /\ UNCHANGED <<g_whpxVersion, s_dispatch, loadResult, m_initStatus, m_features, cap, calls,
                   hvPresent, pc, instanceCalls, events>>

----------------------------------------------------------------------------
(* WhpxPlatform::~WhpxPlatform(), run when the process tears the static    *)
(* instance down.                                                          *)

Teardown(vm) == [ev |-> "vm_teardown", vm |-> vm]
Released == [ev |-> "dispatch_released", vm |-> 0]

\* Platform::DestroyVMs(): every tracked VM is destroyed, m_vms is cleared.
DestroyVMs(vms) == [i \in 1 .. Len(vms) |-> Teardown(vms[i])]

\* Variant: the dispatch table is deleted first.
DtorBody_ReleaseFirst(st, vms) ==
    IF st = "OK"
    THEN [events |-> <<Released>> \o DestroyVMs(vms), left |-> <<>>]
    ELSE [events |-> <<Released>>, left |-> vms]

\* Lines 136-141: the events of the destructor body, in order, and the VMs
\* still tracked when the body ends.
DtorBody(st, vms) ==
    IF st = "OK"
    THEN [events |-> DestroyVMs(vms) \o <<Released>>, left |-> <<>>]
    ELSE [events |-> <<Released>>, left |-> vms]

Destructor ==
    /\ pc = "ready"
    /\ LET d == DtorBody(m_initStatus, m_vms) IN
         \* ~Platform then destroys the members, m_vms with the VMs left in it
         /\ events' = events \o d.events \o DestroyVMs(d.left)
    /\ m_vms' = <<>>
    /\ s_dispatch' = "deleted"
    /\ pc' = "destroyed"
    /\ UNCHANGED <<g_whpxVersion, loadResult, m_initStatus, m_features, cap, calls, hvPresent,
                   instanceCalls, createCalls, lastCreate>>

----------------------------------------------------------------------------

Next ==
    \/ Instance
    \/ CtorBegin
    \/ QueryHypervisorPresent
    \/ QueryFeatures
    \/ QueryExtendedVmExits
    \/ QueryExceptionExitBitmap
    \/ CreateVM
    \/ Destructor

Spec == Init /\ [][Next]_vars

\* Construction alone: the first Instance() call and the probe it runs, on
\* every version of Versions.
ProbeNext ==
    \/ Instance
    \/ CtorBegin
    \/ QueryHypervisorPresent
    \/ QueryFeatures
    \/ QueryExtendedVmExits
    \/ QueryExceptionExitBitmap

ProbeSpec == ProbeInit /\ [][ProbeNext]_vars

TypeOK ==
    /\ s_dispatch \in {"null", "allocated", "deleted"}
    /\ loadResult \in {"not_called", "succeeded", "failed"}
    /\ m_initStatus \in PlatformInitStatus
    /\ cap \in CapValues
    /\ hvPresent \in {"unread", "present", "absent"}
    /\ pc \in {"static_init", "ctor", "q_present", "q_features", "q_extexits",
               "q_excbitmap", "ready", "destroyed"}
    /\ instanceCalls \in 0 .. MaxInstanceCalls
    /\ createCalls \in 0 .. MaxCreateCalls

----------------------------------------------------------------------------
(* Properties.                                                             *)

Range(q) == {q[i] : i \in DOMAIN q}

\* The constructor has returned.
Constructed == pc \in {"ready", "destroyed"}

Issued(code) == \E i \in DOMAIN calls : calls[i].code = code
FailedQuery(code) == \E i \in DOMAIN calls : calls[i].code = code /\ calls[i].hr # "S_OK"
SomeQueryFailed == \E i \in DOMAIN calls : calls[i].hr # "S_OK"

\* C1: whenever one of the capability queries the constructor issued returned
\* a code other than S_OK, the init status after the constructor is Failed.
C1_FailedQueryMarksFailed ==
    (Constructed /\ SomeQueryFailed) => m_initStatus = "Failed"

\* C2: once the dispatch table is loaded, a failure of the presence, features
\* or extended-VM-exits query does not stop the probe: the features and
\* extended-VM-exits queries, and the exception bitmap query when exception
\* exit is reported, have all been issued when the constructor returns.
C2_ProbeNotAborted ==
    (/\ Constructed
     /\ loadResult = "succeeded"
     /\ \/ FailedQuery(HypervisorPresentCode)
        \/ FailedQuery(FeaturesCode)
        \/ FailedQuery(ExtendedVmExitsCode))
    => /\ Issued(FeaturesCode)
       /\ Issued(ExtendedVmExitsCode)
       /\ "Exception" \in m_features.extendedVMExits => Issued(ExceptionExitBitmapCode)

\* C3: when Load() fails the constructor returns with status Unavailable and
\* has issued no capability query.
C3_LoadFailureUnavailable ==
    (Constructed /\ loadResult = "failed")
    => (m_initStatus = "Unavailable" /\ calls = <<>>)

C3_Witness == pc = "ready" /\ loadResult = "failed" /\ s_dispatch = "allocated"

\* C4, as claimed: when the dispatch table is not loaded at construction (the
\* object is missing or Load() did not succeed) the init status is Failed.
C4_NotLoadedIsFailed ==
    (Constructed /\ loadResult # "succeeded") => m_initStatus = "Failed"

\* C4, amended: a missing dispatch object gives status Failed; a Load() that
\* does not succeed gives status Unavailable.
C4_MissingFailedLoadUnavailable ==
    Constructed =>
        /\ loadResult = "not_called" => m_initStatus = "Failed"
        /\ loadResult = "failed" => m_initStatus = "Unavailable"

C4_Witness == pc = "ready" /\ s_dispatch = "null" /\ m_initStatus = "Failed"

\* C5: when the presence query leaves cap.HypervisorPresent false, the status
\* after construction is Unavailable and the presence query is the only
\* capability query issued.
C5_AbsentIsUnavailable ==
    (Constructed /\ hvPresent = "absent")
    => /\ m_initStatus = "Unavailable"
       /\ Len(calls) = 1
       /\ calls[1].code = HypervisorPresentCode

C5_Witness ==
    pc = "ready" /\ hvPresent = "absent" /\ calls = <<Call(HypervisorPresentCode, "S_OK")>>

\* C6: once the init status has a value other than Uninitialized, no step of
\* the lifecycle assigns it a different value.
C6_StatusTerminal ==
    [][m_initStatus # "Uninitialized" => m_initStatus' = m_initStatus]_vars

\* C7: after construction, exceptionExits is non-empty only if
\* extendedVMExits includes Exception.
C7_FeaturesSelfConsistent ==
    Constructed =>
        (m_features.exceptionExits # 0 => "Exception" \in m_features.extendedVMExits)

C7_Witness ==
    /\ pc = "ready"
    /\ m_features.exceptionExits # 0
    /\ "Exception" \in m_features.extendedVMExits

\* C8: when a platform whose status is OK is destroyed, every VM it tracks is
\* torn down before the dispatch table is released, and no VM is torn down
\* after the release.
C8_VMsDestroyedBeforeRelease ==
    [][(pc = "ready" /\ pc' = "destroyed" /\ m_initStatus = "OK")
       => /\ \A v \in Range(m_vms) :
               \E i, j \in DOMAIN events' :
                   i < j /\ events'[i] = Teardown(v) /\ events'[j] = Released
          /\ \A i, j \in DOMAIN events' :
               (events'[i] = Released /\ i < j) => events'[j].ev # "vm_teardown"]_vars

C8_Witness ==
    /\ pc = "destroyed"
    /\ m_initStatus = "OK"
    /\ events = <<Teardown(1), Teardown(2), Released>>

\* C9: a CreateVM call whose VM failed Initialize() returns no VM and does not
\* track the VM; a VM is returned only if Initialize() succeeded.
C9_NoPartialVM ==
    lastCreate.called =>
        /\ lastCreate.returned => lastCreate.initialized
        /\ (lastCreate.allocated /\ ~lastCreate.initialized)
             => (~lastCreate.returned /\ createCalls \notin Range(m_vms))

C9_Witness == lastCreate.called /\ lastCreate.allocated /\ ~lastCreate.initialized

\* C10: a CreateVM call made while the status is Unavailable or Failed
\* allocates and initializes no VM, does not use the dispatch table and
\* returns no VM.
C10_UnusablePlatformBlocksCreate ==
    (lastCreate.called /\ lastCreate.statusAtCall \in {"Unavailable", "Failed"})
    => /\ ~lastCreate.allocated
       /\ ~lastCreate.initialized
       /\ ~lastCreate.usedDispatch
       /\ ~lastCreate.returned
       /\ m_vms = <<>>

C10_Witness ==
    /\ lastCreate.called
    /\ lastCreate.statusAtCall = "Failed"
    /\ loadResult = "succeeded"

----------------------------------------------------------------------------
(* Properties of Instance() and of the probe's order and results.          *)

Codes(q) == [i \in DOMAIN q |-> q[i].code]

IsPrefix(p, q) == Len(p) <= Len(q) /\ \A i \in DOMAIN p : p[i] = q[i]

ProbeOrder ==
    <<HypervisorPresentCode, FeaturesCode, ExtendedVmExitsCode, ExceptionExitBitmapCode>>

\* C11: the probe runs once, in the first Instance() call: a later call
\* leaves the instance as it is (no Load(), no capability query, the same
\* status and features), and no capability query is ever issued twice.
C11_InstanceProbesOnce ==
    /\ [][(instanceCalls >= 1 /\ instanceCalls' = instanceCalls + 1)
          => (pc = "ready" /\ UNCHANGED <<pc, calls, loadResult, m_initStatus,
                                          m_features, s_dispatch, m_vms>>)]_vars
    /\ [](\A i, j \in DOMAIN calls : calls[i].code = calls[j].code => i = j)

C11_Witness == instanceCalls = 2 /\ pc = "ready" /\ Len(calls) = 4

\* C12: the queries are issued in the order presence, features, extended VM
\* exits, exception bitmap, none of them once the constructor has returned.
\* When the answer of the extended-VM-exits query (cap after the call) has
\* ExceptionExit set, the next step of the constructor issues the bitmap
\* query; when it has not, the constructor returns without issuing it.
C12_QueryOrder ==
    /\ [](IsPrefix(Codes(calls), ProbeOrder))
    /\ [][Constructed => calls' = calls]_vars
    /\ [][pc = "q_extexits"
          => IF ExceptionExit(cap')
             THEN ~Constructed' /\ ~Issued(ExceptionExitBitmapCode)'
             ELSE Constructed' /\ ~Issued(ExceptionExitBitmapCode)']_vars
    /\ [][(Issued(ExtendedVmExitsCode) /\ ~Constructed)
          => (Constructed' /\ Issued(ExceptionExitBitmapCode)')]_vars

C12_Witness ==
    /\ pc = "ready"
    /\ Codes(calls) = ProbeOrder
    /\ "Exception" \in m_features.extendedVMExits

\* C13: once the features are populated, extendedControlRegisters contains
\* CR8 and MXCSRMask, and XCR0 exactly when the version is at least
\* 10.0.17763.0 in the order major, minor, build, revision.
C13_ControlRegisters ==
    m_features.populated =>
        /\ {"CR8", "MXCSRMask"} \subseteq m_features.extendedControlRegisters
        /\ m_features.extendedControlRegisters \subseteq {"CR8", "MXCSRMask", "XCR0"}
        /\ "XCR0" \in m_features.extendedControlRegisters
             <=> g_whpxVersion \in { <<10, 0, 17763, 0>>, <<10, 0, 17763, 1>>, <<10, 1, 0, 0>> }

C13_Witness ==
    /\ pc = "ready"
    /\ g_whpxVersion = <<9, 9, 99999, 9>>
    /\ m_features.extendedControlRegisters = {"CR8", "MXCSRMask"}

\* C14: when the extended-VM-exits query succeeded, the extendedVMExits the
\* constructor returns with holds exactly the exits whose bit is set in that
\* query's answer.  The answer is cap after the extended-VM-exits query: cap'
\* when the constructor returns from that step, cap when it returns from the
\* exception bitmap step.
C14_ExitsMatchCapability ==
    [][(/\ pc \in {"q_extexits", "q_excbitmap"}
        /\ pc' = "ready"
        /\ ~FailedQuery(ExtendedVmExitsCode)')
       => LET answer == IF pc = "q_extexits" THEN cap' ELSE cap
          IN m_features'.extendedVMExits = ExitsHead(answer) \cup ExitsTail(answer)]_vars

\* C15: after the constructor has returned the init status is OK, Unavailable
\* or Failed, never Uninitialized.
C15_StatusSetOnReturn ==
    Constructed => m_initStatus \in {"OK", "Unavailable", "Failed"}

C15_Witness ==
    pc = "ready" /\ m_initStatus = "OK" /\ Len(calls) = 4 /\ ~SomeQueryFailed

\* C16: when the constructor returned early (no dispatch object, Load()
\* failed, hypervisor absent) the features are the default-constructed ones;
\* so are those of every platform whose status is Unavailable.
C16_EarlyReturnLeavesFeatures ==
    Constructed =>
        /\ (loadResult # "succeeded" \/ hvPresent = "absent") => m_features = DefaultFeatures
        /\ m_initStatus = "Unavailable" => m_features = DefaultFeatures

C16_Witness ==
    pc = "ready" /\ hvPresent = "absent" /\ m_initStatus = "Unavailable"

====
